---- MODULE Spec2Model ----
(***************************************************************************)
(* gh-env-sync: sync_environments / sync_one_environment (main.rs) driving *)
(* GithubEnvClient (gh_client.rs) against the GitHub REST API.             *)
(*                                                                         *)
(* Strings that the code splits or concatenates (the repository argument,  *)
(* owner, name, user name) are sequences of one-character strings; the     *)
(* environment names, keys and values, which the code only passes along,   *)
(* are TLA+ strings.  Option<T> is the set {} (None) or {x} (Some(x)).     *)
(* A HashMap is a function; its iteration order is any order.              *)
(***************************************************************************)
EXTENDS Integers, Sequences, FiniteSets, TLC

VARIABLES
    config,     \* the ConfigDocument handed to sync_environments
    options,    \* the Args handed to sync_environments
    pc,         \* where the run is: the await it is suspended at
    client,     \* Option<GithubEnvClient>: the client init built
    envsLeft,   \* environments the loop of sync_environments has not visited
    curEnv,     \* Option: environment_name of the running sync_one_environment
    keysLeft,   \* keys the loop of sync_one_environment has not visited
    curKey,     \* Option: key of the running upsert_environment_variable
    result,     \* Option: what sync_environments returned ("Ok" / "Err")
    trace,      \* the requests of this run, each with its answer
    wire,       \* positions in trace of the requests sent and not answered
    remote,     \* GitHub: environment name -> (variable key -> value)
    runs,       \* runs of the process started so far
    faults,     \* answers so far that were not GitHub's regular answer
    otherWrites,\* writes by another writer so far
    raced,      \* another writer wrote since this run started
    before,     \* remote when this run started
    settled     \* Option: remote at the end of the previous run, if that
                \* run returned Ok with regular answers only and no other
                \* writer has written since it started

vars == <<config, options, pc, client, envsLeft, curEnv, keysLeft, curKey,
          result, trace, wire, remote, runs, faults, otherWrites,
          raced, before, settled>>

(***************************************************************************)
(* Bounds                                                                  *)
(***************************************************************************)
MaxRuns == 2
MaxFaults == 1
MaxOtherWrites == 1

\* The value another writer writes: none of the documents' values.
OtherValues == {"0"}

None == {}
Some(x) == {x}
Unwrap(o) == CHOOSE x \in o : TRUE

\* The repository GitHub hosts, and the identity it answers a lookup with.
RepoOwner == <<"o">>
RepoName == <<"r">>
RepoId == 7

Token == "tok"

Repositories ==
    { <<"o", "/", "r">>, <<"o", "r">>, <<"o", "/", "r", "/", "x">> }

Usernames == { None, Some(<<"u">>) }

\* The documents of the model: every sub-document of this one (any of its
\* environments, each with any of its pairs).
FullDocument ==
    ("prod" :> (("A" :> "1") @@ ("B" :> "2"))) @@ ("staging" :> ("B" :> "1"))

\* --environment: absent, or any environment name of the full document
\* (whether or not the document of the run holds it).
Selectors == { None } \cup { Some(e) : e \in DOMAIN FullDocument }

\* The arguments of the model.  --username reaches nothing but the
\* User-Agent header, so it is given with one repository and selector only.
Arguments ==
    { a \in [repository : Repositories, environment : Selectors,
             token : {Token}, username : Usernames] :
        a.username # None =>
            a.repository = <<"o", "/", "r">> /\ a.environment = Some("staging") }

SubEnvironments(environment) ==
    { [k \in K |-> environment[k]] : K \in SUBSET DOMAIN environment }

ConfigDocuments ==
    UNION { { d \in [E -> UNION { SubEnvironments(FullDocument[e]) : e \in E }] :
                \A e \in E : d[e] \in SubEnvironments(FullDocument[e]) } :
            E \in SUBSET DOMAIN FullDocument }


(***************************************************************************)
(* Pure parts of the client: requests, and the reading of an answer        *)
(***************************************************************************)
RECURSIVE Find(_, _, _)
Find(s, c, i) ==
    IF i > Len(s) THEN 0 ELSE IF s[i] = c THEN i ELSE Find(s, c, i + 1)

\* str::split_once('/'): splits at the FIRST slash; None when there is none.
split_once(s) ==
    LET i == Find(s, "/", 1)
    IN  IF i = 0 THEN None
        ELSE Some(<<SubSeq(s, 1, i - 1), SubSeq(s, i + 1, Len(s))>>)

NoBody == <<>>

Request(method, url, headers, body) ==
    [method |-> method, url |-> url, headers |-> headers, body |-> body]

\* The request get_repository_details sends: bearer_auth and two headers.
get_repository_details_request(username, token, repository_owner, repository_name) ==
    Request("GET", <<"repos", repository_owner, repository_name>>,
            ("Authorization" :> <<"Bearer", token>>)
                @@ ("User-Agent" :> username)
                @@ ("X-Github-Api-Version" :> "2022-11-28"),
            NoBody)

\* AuthenticatedGhRequestBuilder::with_env_client: the headers it adds.
with_env_client(c) ==
    ("Authorization" :> <<"Bearer", c.token>>)
        @@ ("User-Agent" :> c.username)
        @@ ("Accept" :> "application/vnd.github.v3+json")
        @@ ("X-Github-Api-Version" :> "2022-11-28")

upsert_environment_request(c, environment_name) ==
    Request("PUT",
            <<"repos", c.repository.owner.login, c.repository.name,
              "environments", environment_name>>,
            with_env_client(c), NoBody)

get_environment_variable_request(c, environment_name, key) ==
    Request("GET",
            <<"repositories", c.repository.id, "environments",
              environment_name, "variables", key>>,
            with_env_client(c), NoBody)

\* A slip: the key sent where the value belongs.
create_environment_variable_request_KeyAsValue(c, environment_name, key, value) ==
    Request("POST",
            <<"repositories", c.repository.id, "environments",
              environment_name, "variables">>,
            with_env_client(c), ("name" :> key) @@ ("value" :> key))

create_environment_variable_request(c, environment_name, key, value) ==
    Request("POST",
            <<"repositories", c.repository.id, "environments",
              environment_name, "variables">>,
            with_env_client(c), ("name" :> key) @@ ("value" :> value))

\* A slip: the key sent where the value belongs.
update_environment_variable_request_KeyAsValue(c, environment_name, key, value) ==
    Request("PATCH",
            <<"repositories", c.repository.id, "environments",
              environment_name, "variables", key>>,
            with_env_client(c), ("value" :> key))

update_environment_variable_request(c, environment_name, key, value) ==
    Request("PATCH",
            <<"repositories", c.repository.id, "environments",
              environment_name, "variables", key>>,
            with_env_client(c), ("value" :> value))

\* The two delete operations of the client; no caller in the sync flow.
delete_environment_request(c, environment_name) ==
    Request("DELETE",
            <<"repos", c.repository.owner.login, c.repository.name,
              "environments", environment_name>>,
            with_env_client(c), NoBody)

delete_environment_variable_request(c, environment_name, key) ==
    Request("DELETE",
            <<"repositories", c.repository.id, "environments",
              environment_name, "variables", key>>,
            with_env_client(c), NoBody)

\* An answer: sent = FALSE is send().await failing (no status at all).
Response(status, body) == [sent |-> TRUE, status |-> status, body |-> body]
TransportError == [sent |-> FALSE, status |-> 0, body |-> NoBody]

\* reqwest Response::error_for_status: an error exactly for a client error
\* (400-499) or a server error (500-599) status.
error_for_status(status) ==
    IF (status >= 400 /\ status <= 499) \/ (status >= 500 /\ status <= 599)
    THEN "Err" ELSE "Ok"

\* serde: VariableResponse and Repository decode when their fields are there.
DecodesVariableResponse(body) == "value" \in DOMAIN body
DecodesRepository(body) == {"id", "name", "owner"} \subseteq DOMAIN body

Ok(v) == [tag |-> "Ok", val |-> v]
Err == [tag |-> "Err", val |-> None]

\* get_repository_details, from the answer on: Result<Repository>.
get_repository_details(resp) ==
    IF ~resp.sent THEN Err
    ELSE IF error_for_status(resp.status) = "Ok"
         THEN IF DecodesRepository(resp.body)
              THEN Ok([id |-> resp.body["id"], name |-> resp.body["name"],
                       owner |-> [login |-> resp.body["owner"].login]])
              ELSE Err
         ELSE Err

\* A slip: the status of the answer is not looked at.
upsert_environment_result_IgnoresStatus(resp) ==
    IF ~resp.sent THEN Err ELSE Ok(None)

\* upsert_environment, from the answer on: Result<()>.
upsert_environment_result(resp) ==
    IF ~resp.sent THEN Err
    ELSE IF error_for_status(resp.status) = "Ok" THEN Ok(None) ELSE Err

\* A slip: the status of the answer is not looked at.
create_environment_variable_result_IgnoresStatus(resp) ==
    IF ~resp.sent THEN Err ELSE Ok(None)

\* create_environment_variable, from the answer on: Result<()>.
create_environment_variable_result(resp) ==
    IF ~resp.sent THEN Err
    ELSE IF error_for_status(resp.status) = "Ok" THEN Ok(None) ELSE Err

\* A slip: the status of the answer is not looked at.
update_environment_variable_result_IgnoresStatus(resp) ==
    IF ~resp.sent THEN Err ELSE Ok(None)

\* update_environment_variable, from the answer on: Result<()>.
update_environment_variable_result(resp) ==
    IF ~resp.sent THEN Err
    ELSE IF error_for_status(resp.status) = "Ok" THEN Ok(None) ELSE Err

\* A slip: every error status is taken for "absent", not 404 alone.
get_environment_variable_result_AnyErrorIsAbsent(resp) ==
    IF ~resp.sent THEN Err
    ELSE IF error_for_status(resp.status) = "Ok"
         THEN IF DecodesVariableResponse(resp.body)
              THEN Ok(Some(resp.body["value"]))
              ELSE Err
         ELSE Ok(None)

\* get_environment_variable, from the answer on: Result<Option<String>>.
get_environment_variable_result(resp) ==
    IF ~resp.sent THEN Err
    ELSE IF error_for_status(resp.status) = "Ok"
         THEN IF DecodesVariableResponse(resp.body)
              THEN Ok(Some(resp.body["value"]))
              ELSE Err
         ELSE IF resp.status = 404 THEN Ok(None) ELSE Err

\* A slip: a create whatever get returned.
upsert_environment_variable_write_AlwaysCreates(c, found, environment_name, key, value) ==
    create_environment_variable_request(c, environment_name, key, value)

\* send().await has resumed with an answer and error_for_status passes it:
\* the caller awaits the body next (res.json().await).
AwaitsBody(resp) == resp.sent /\ error_for_status(resp.status) = "Ok"

\* upsert_environment_variable's match on what get returned: the write it
\* issues next.
upsert_environment_variable_write(c, found, environment_name, key, value) ==
    IF found # None
    THEN update_environment_variable_request(c, environment_name, key, value)
    ELSE create_environment_variable_request(c, environment_name, key, value)


(***************************************************************************)
(* GitHub: the regular answer to a request, and the answers that are not   *)
(***************************************************************************)
RepositoryBody ==
    ("id" :> RepoId) @@ ("name" :> RepoName) @@ ("owner" :> [login |-> RepoOwner])

VariableBody(key, value) == ("name" :> key) @@ ("value" :> value)

Answer(status, body, rem) == [status |-> status, body |-> body, remote |-> rem]

IsLookup(req) == req.method = "GET" /\ Len(req.url) = 3
IsUpsertEnvironment(req) == req.method = "PUT" /\ Len(req.url) = 5
IsGetVariable(req) == req.method = "GET" /\ Len(req.url) = 6
IsCreateVariable(req) == req.method = "POST" /\ Len(req.url) = 5
IsUpdateVariable(req) == req.method = "PATCH" /\ Len(req.url) = 6
IsDelete(req) == req.method = "DELETE"
IsVariableCall(req) ==
    IsGetVariable(req) \/ IsCreateVariable(req) \/ IsUpdateVariable(req)
IsWrite(req) == IsCreateVariable(req) \/ IsUpdateVariable(req)

\* The environment, key and value a request addresses.
EnvOf(req) == IF IsUpsertEnvironment(req) THEN req.url[5] ELSE req.url[4]
KeyOf(req) == IF IsCreateVariable(req) THEN req.body["name"] ELSE req.url[6]
ValueOf(req) == req.body["value"]

HasVariable(rem, e, k) == e \in DOMAIN rem /\ k \in DOMAIN rem[e]

SetVariable(rem, e, k, v) ==
    [rem EXCEPT ![e] = [x \in DOMAIN rem[e] \cup {k} |->
                            IF x = k THEN v ELSE rem[e][x]]]

RemoveVariable(rem, e, k) ==
    [rem EXCEPT ![e] = [x \in DOMAIN rem[e] \ {k} |-> rem[e][x]]]

AddEnvironment(rem, e) ==
    [x \in DOMAIN rem \cup {e} |-> IF x \in DOMAIN rem THEN rem[x] ELSE <<>>]

\* GET /repos/{owner}/{repo}; PUT /repos/{owner}/{repo}/environments/{env};
\* GET|POST|PATCH /repositories/{id}/environments/{env}/variables[/{key}].
GitHub(req, rem) ==
    IF IsLookup(req) THEN
        IF req.url[2] = RepoOwner /\ req.url[3] = RepoName
        THEN Answer(200, RepositoryBody, rem)
        ELSE Answer(404, NoBody, rem)
    ELSE IF IsUpsertEnvironment(req) THEN
        IF req.url[2] = RepoOwner /\ req.url[3] = RepoName
        THEN Answer(200, NoBody, AddEnvironment(rem, EnvOf(req)))
        ELSE Answer(404, NoBody, rem)
    ELSE IF req.url[2] # RepoId THEN Answer(404, NoBody, rem)
    ELSE IF IsGetVariable(req) THEN
        IF HasVariable(rem, EnvOf(req), KeyOf(req))
        THEN Answer(200, VariableBody(KeyOf(req), rem[EnvOf(req)][KeyOf(req)]), rem)
        ELSE Answer(404, NoBody, rem)
    ELSE IF IsCreateVariable(req) THEN
        IF EnvOf(req) \notin DOMAIN rem THEN Answer(404, NoBody, rem)
        ELSE IF HasVariable(rem, EnvOf(req), KeyOf(req))
             THEN Answer(409, NoBody, rem)
             ELSE Answer(201, NoBody,
                         SetVariable(rem, EnvOf(req), KeyOf(req), ValueOf(req)))
    ELSE IF IsUpdateVariable(req) THEN
        IF HasVariable(rem, EnvOf(req), KeyOf(req))
        THEN Answer(204, NoBody,
                    SetVariable(rem, EnvOf(req), KeyOf(req), ValueOf(req)))
        ELSE Answer(404, NoBody, rem)
    ELSE Answer(404, NoBody, rem)

\* Answers other than the regular one: the connection fails, a server error,
\* a 3xx answer reqwest does not follow (300 Multiple Choices) with or
\* without a body of the expected shape, a 2xx answer with no such body.
FaultAnswers(req) ==
    {TransportError, Response(500, NoBody)}
        \cup (IF IsLookup(req)
              THEN {Response(300, RepositoryBody), Response(200, NoBody)}
              ELSE IF IsGetVariable(req)
              THEN {Response(300, VariableBody(KeyOf(req), "1")),
                    Response(200, NoBody)}
              ELSE {Response(300, NoBody)})


(***************************************************************************)
(* GitHub's side of an await: what the request on the wire is answered     *)
(* with, and what the answer leaves on GitHub                              *)
(***************************************************************************)
Delivery(resp, rem, fault) == [resp |-> resp, remote |-> rem, fault |-> fault]

Deliveries(req) ==
    LET a == GitHub(req, remote)
    IN  {Delivery(Response(a.status, a.body), a.remote, 0)}
            \cup (IF faults < MaxFaults
                  THEN {Delivery(f, remote, 1) : f \in FaultAnswers(req)}
                  ELSE {})

(***************************************************************************)
(* The run: sync_environments, suspended at each await                     *)
(***************************************************************************)
Entry(req) == [req |-> req, resp |-> None, outcome |-> "pending"]

\* The trace with its last request answered and its call returned.
Returned(tr, resp, outcome) ==
    [tr EXCEPT ![Len(tr)] = [@ EXCEPT !.resp = Some(resp), !.outcome = outcome]]

Running == pc \notin {"idle", "done", "panicked"}

\* The hypothesis "all calls succeed" as the specification words it (sections
\* 4.1 and 7): every answer of the trace was 2xx with the body the call
\* decodes, or the 404 of a get for an absent variable. It is a statement
\* about the answers, not about what sync_environments returned: that is
\* `result`, which is Ok also after a 1xx/3xx answer (error_for_status) and
\* is not set by a run that panicked.
AllSucceeded(tr) ==
    \A i \in 1..Len(tr) :
        /\ tr[i].resp # None
        /\ LET r == Unwrap(tr[i].resp)
           IN  /\ r.sent
               /\ \/ r.status \in 200..299
                  \/ IsGetVariable(tr[i].req) /\ r.status = 404
               /\ IsGetVariable(tr[i].req) /\ r.status \in 200..299
                    => DecodesVariableResponse(r.body)
               /\ IsLookup(tr[i].req) => DecodesRepository(r.body)

Goto(p, tr, w, el, ce, kl, ck, res) ==
    /\ pc' = p
    /\ trace' = tr
    /\ wire' = w
    /\ envsLeft' = el
    /\ curEnv' = ce
    /\ keysLeft' = kl
    /\ curKey' = ck
    /\ result' = res

\* sync_environments returns res to main.
Return(tr, res) == Goto("done", tr, {}, {}, None, {}, None, Some(res))

\* An expect() fails: the process panics.
Panic(tr) == Goto("panicked", tr, {}, {}, None, {}, None, None)

\* send() of req, suspending at p; the awaits before it have all resumed.
Send(p, tr, req, el, ce, kl, ck) ==
    Goto(p, Append(tr, Entry(req)), {Len(tr) + 1}, el, ce, kl, ck, None)

\* sync_one_environment, up to the await of upsert_environment's send.
sync_one_environment(tr, c, environment_name, el) ==
    Send("upsert_environment", tr,
         upsert_environment_request(c, environment_name),
         el, Some(environment_name), DOMAIN config[environment_name], None)

\* `for (env_key, env_config_dict) in config`: the next environment, in
\* whatever order the HashMap yields them; after the last, Ok(()).
NextEnvironment(tr, c, el) ==
    IF el = {} THEN Return(tr, "Ok")
    ELSE \E e \in el : sync_one_environment(tr, c, e, el \ {e})

\* A slip: the loop over the pairs ends after one pair.
NextVariable_StopsAfterOne(tr, c, environment_name, el, kl) ==
    IF kl = {} THEN NextEnvironment(tr, c, el)
    ELSE \E k \in kl :
            Send("get_environment_variable", tr,
                 get_environment_variable_request(c, environment_name, k),
                 el, Some(environment_name), {}, Some(k))

\* A slip: the pair visited stays among the pairs to visit.
NextVariable_KeepsKey(tr, c, environment_name, el, kl) ==
    IF kl = {} THEN NextEnvironment(tr, c, el)
    ELSE \E k \in kl :
            Send("get_environment_variable", tr,
                 get_environment_variable_request(c, environment_name, k),
                 el, Some(environment_name), kl, Some(k))

\* `for (key, value) in environment`: the next pair, in whatever order the
\* HashMap yields them, up to the await of get_environment_variable's send;
\* after the last, sync_one_environment returns Ok(()).
NextVariable(tr, c, environment_name, el, kl) ==
    IF kl = {} THEN NextEnvironment(tr, c, el)
    ELSE \E k \in kl :
            Send("get_environment_variable", tr,
                 get_environment_variable_request(c, environment_name, k),
                 el, Some(environment_name), kl \ {k}, Some(k))

\* options.username, defaulting to the repository owner.
UsernameOf(opts, repository_owner) ==
    IF opts.username # None THEN Unwrap(opts.username) ELSE repository_owner

\* sync_environments, from its start (a start of the process) to the await
\* of the lookup that GithubEnvClient::init sends.
sync_environments ==
    /\ ~Running
    /\ runs < MaxRuns
    /\ runs' = runs + 1
    /\ before' = remote
    /\ raced' = FALSE
    /\ settled' = IF pc = "done" /\ result = Some("Ok") /\ AllSucceeded(trace)
                     /\ ~raced
                  THEN Some(remote) ELSE None
    /\ client' = None
    /\ LET parts == split_once(options.repository)
       IN  IF parts = None THEN Panic(<<>>)
           ELSE LET repository_owner == Unwrap(parts)[1]
                    repository_name == Unwrap(parts)[2]
                IN  Send("init", <<>>,
                         get_repository_details_request(
                             UsernameOf(options, repository_owner),
                             options.token, repository_owner, repository_name),
                         {}, None, {}, None)
    /\ UNCHANGED <<config, options, remote, faults, otherWrites>>

\* A slip: --environment is not looked at.
sync_environments_selected_IgnoresSelector(tr, c) ==
    NextEnvironment(tr, c, DOMAIN config)

\* sync_environments after init returned the client, up to its next await:
\* the one environment of --environment (which the document must hold), or
\* every environment of the document.
sync_environments_selected(tr, c) ==
    IF options.environment # None
    THEN LET environment == Unwrap(options.environment)
         IN  IF environment \notin DOMAIN config
             THEN Panic(tr)
             ELSE sync_one_environment(tr, c, environment, {})
    ELSE NextEnvironment(tr, c, DOMAIN config)

\* The lookup is answered and the send().await of get_repository_details
\* resumes: on the Ok arm of error_for_status it awaits the body
\* (res.json().await), with no request on the wire; otherwise init returns
\* the error and so does sync_environments.
init ==
    /\ pc = "init"
    /\ \E d \in Deliveries(trace[Len(trace)].req) :
        /\ remote' = d.remote
        /\ faults' = faults + d.fault
        /\ IF AwaitsBody(d.resp)
           THEN Goto("init_json", Returned(trace, d.resp, "body"), {},
                     envsLeft, curEnv, keysLeft, curKey, None)
           ELSE Return(Returned(trace, d.resp, "err"), "Err")
    /\ UNCHANGED <<config, options, client, runs, otherWrites, raced, before,
                   settled>>

\* The body await of get_repository_details resumes and
\* GithubEnvClient::init returns; then sync_environments goes on with the
\* client it returned.
init_json ==
    /\ pc = "init_json"
    /\ LET resp == Unwrap(trace[Len(trace)].resp)
           r == get_repository_details(resp)
           repository_owner == Unwrap(split_once(options.repository))[1]
           c == [username |-> UsernameOf(options, repository_owner),
                 token |-> options.token,
                 repository |-> r.val]
       IN  IF r.tag = "Err"
           THEN client' = None /\ Return(Returned(trace, resp, "err"), "Err")
           ELSE /\ client' = Some(c)
                /\ sync_environments_selected(Returned(trace, resp, "ok"), c)
    /\ UNCHANGED <<config, options, remote, faults, runs, otherWrites, raced,
                   before, settled>>

\* The PUT is answered and upsert_environment resumes; then
\* sync_one_environment up to its next await.
upsert_environment ==
    /\ pc = "upsert_environment"
    /\ \E d \in Deliveries(trace[Len(trace)].req) :
        /\ remote' = d.remote
        /\ faults' = faults + d.fault
        /\ LET r == upsert_environment_result(d.resp)
           IN  IF r.tag = "Err"
               THEN Return(Returned(trace, d.resp, "err"), "Err")
               ELSE NextVariable(Returned(trace, d.resp, "ok"), Unwrap(client),
                                 Unwrap(curEnv), envsLeft, keysLeft)
    /\ UNCHANGED <<config, options, client, runs, otherWrites, raced, before,
                   settled>>

\* get_environment_variable has returned r for the last request of tr: the
\* error goes up through every `?`; otherwise upsert_environment_variable
\* goes on to the await of the write it chooses.
upsert_environment_variable(tr, resp, r) ==
    LET e == Unwrap(curEnv)
        k == Unwrap(curKey)
    IN  IF r.tag = "Err"
        THEN Return(Returned(tr, resp, "err"), "Err")
        ELSE Send(IF r.val # None THEN "update_environment_variable"
                                  ELSE "create_environment_variable",
                  Returned(tr, resp, IF r.val # None THEN "some" ELSE "none"),
                  upsert_environment_variable_write(
                      Unwrap(client), r.val, e, k, config[e][k]),
                  envsLeft, curEnv, keysLeft, curKey)

\* The GET is answered and the send().await of get_environment_variable
\* resumes: on the Ok arm of error_for_status it awaits the body
\* (res.json().await), with no request on the wire; on the Err arm it
\* returns at once.
get_environment_variable ==
    /\ pc = "get_environment_variable"
    /\ \E d \in Deliveries(trace[Len(trace)].req) :
        /\ remote' = d.remote
        /\ faults' = faults + d.fault
        /\ IF AwaitsBody(d.resp)
           THEN Goto("get_environment_variable_json",
                     Returned(trace, d.resp, "body"), {},
                     envsLeft, curEnv, keysLeft, curKey, None)
           ELSE upsert_environment_variable(
                    trace, d.resp, get_environment_variable_result(d.resp))
    /\ UNCHANGED <<config, options, client, runs, otherWrites, raced, before,
                   settled>>

\* The body await of get_environment_variable resumes and the call returns.
get_environment_variable_json ==
    /\ pc = "get_environment_variable_json"
    /\ LET resp == Unwrap(trace[Len(trace)].resp)
       IN  upsert_environment_variable(
               trace, resp, get_environment_variable_result(resp))
    /\ UNCHANGED <<config, options, client, remote, faults, runs, otherWrites,
                   raced, before, settled>>

\* The POST is answered and create_environment_variable resumes; then
\* sync_one_environment up to its next await.
create_environment_variable ==
    /\ pc = "create_environment_variable"
    /\ \E d \in Deliveries(trace[Len(trace)].req) :
        /\ remote' = d.remote
        /\ faults' = faults + d.fault
        /\ LET r == create_environment_variable_result(d.resp)
           IN  IF r.tag = "Err"
               THEN Return(Returned(trace, d.resp, "err"), "Err")
               ELSE NextVariable(Returned(trace, d.resp, "ok"), Unwrap(client),
                                 Unwrap(curEnv), envsLeft, keysLeft)
    /\ UNCHANGED <<config, options, client, runs, otherWrites, raced, before,
                   settled>>

\* The PATCH is answered and update_environment_variable resumes; then
\* sync_one_environment up to its next await.
update_environment_variable ==
    /\ pc = "update_environment_variable"
    /\ \E d \in Deliveries(trace[Len(trace)].req) :
        /\ remote' = d.remote
        /\ faults' = faults + d.fault
        /\ LET r == update_environment_variable_result(d.resp)
           IN  IF r.tag = "Err"
               THEN Return(Returned(trace, d.resp, "err"), "Err")
               ELSE NextVariable(Returned(trace, d.resp, "ok"), Unwrap(client),
                                 Unwrap(curEnv), envsLeft, keysLeft)
    /\ UNCHANGED <<config, options, client, runs, otherWrites, raced, before,
                   settled>>

\* Another writer sets or deletes one of the variables the document names.
OtherWriter ==
    /\ otherWrites < MaxOtherWrites
    /\ \E e \in DOMAIN config : \E k \in DOMAIN config[e] :
        \/ \E v \in OtherValues :
            remote' = SetVariable(AddEnvironment(remote, e), e, k, v)
        \/ /\ HasVariable(remote, e, k)
           /\ remote' = RemoveVariable(remote, e, k)
    /\ remote' # remote
    /\ otherWrites' = otherWrites + 1
    /\ raced' = TRUE
    /\ settled' = None
    /\ UNCHANGED <<config, options, pc, client, envsLeft, curEnv, keysLeft,
                   curKey, result, trace, wire, runs, faults, before>>

Init ==
    /\ config \in ConfigDocuments
    /\ options \in Arguments
    /\ pc = "idle"
    /\ client = None
    /\ envsLeft = {}
    /\ curEnv = None
    /\ keysLeft = {}
    /\ curKey = None
    /\ result = None
    /\ trace = <<>>
    /\ wire = {}
    /\ remote = <<>>
    /\ runs = 0
    /\ faults = 0
    /\ otherWrites = 0
    /\ raced = FALSE
    /\ before = <<>>
    /\ settled = None

Next ==
    \/ sync_environments
    \/ init
    \/ init_json
    \/ upsert_environment
    \/ get_environment_variable
    \/ get_environment_variable_json
    \/ create_environment_variable
    \/ update_environment_variable
    \/ OtherWriter

Spec == Init /\ [][Next]_vars

\* The await the run is suspended at resumes.
Resume ==
    \/ init
    \/ init_json
    \/ upsert_environment
    \/ get_environment_variable
    \/ get_environment_variable_json
    \/ create_environment_variable
    \/ update_environment_variable

\* Every remote call eventually returns: a request on the wire is answered
\* (by GitHub or by a failure of the transport) and its await resumes.
FairSpec == Spec /\ WF_vars(Resume)


(***************************************************************************)
(* Vocabulary of the claims, read off the trace of the run                 *)
(***************************************************************************)
Positions == 1..Len(trace)

Answered(i) == trace[i].resp # None
StatusOf(i) == Unwrap(trace[i].resp).status
Sent(i) == Unwrap(trace[i].resp).sent

\* The call at position i has returned: its request was answered and, where
\* the call reads the body of the answer, the await of the body has resumed.
CallReturned(i) == trace[i].outcome \notin {"pending", "body"}

\* The call at position i failed: no answer came, or a 4xx/5xx one.
CallFailed(i) ==
    Answered(i) /\ (~Sent(i) \/ StatusOf(i) \in 400..599)
        /\ ~(IsGetVariable(trace[i].req) /\ Sent(i) /\ StatusOf(i) = 404)

\* The get at position i was answered 200 with a variable, or 404.
GetAnswered(i) ==
    /\ Answered(i) /\ Sent(i)
    /\ \/ StatusOf(i) = 404
       \/ StatusOf(i) \in 200..299
            /\ DecodesVariableResponse(Unwrap(trace[i].resp).body)

UpsertsOf(e) ==
    { i \in Positions : IsUpsertEnvironment(trace[i].req) /\ EnvOf(trace[i].req) = e }
GetsOf(e, k) ==
    { i \in Positions : /\ IsGetVariable(trace[i].req)
                        /\ EnvOf(trace[i].req) = e /\ KeyOf(trace[i].req) = k }
CreatesOf(e, k) ==
    { i \in Positions : /\ IsCreateVariable(trace[i].req)
                        /\ EnvOf(trace[i].req) = e /\ KeyOf(trace[i].req) = k }
UpdatesOf(e, k) ==
    { i \in Positions : /\ IsUpdateVariable(trace[i].req)
                        /\ EnvOf(trace[i].req) = e /\ KeyOf(trace[i].req) = k }

AllKeys == UNION { DOMAIN FullDocument[e] : e \in DOMAIN FullDocument }
AllPairs == { <<e, k>> : e \in DOMAIN FullDocument, k \in AllKeys }
DocumentPairs == { p \in AllPairs : p[1] \in DOMAIN config /\ p[2] \in DOMAIN config[p[1]] }

SelectorMissing ==
    options.environment # None /\ Unwrap(options.environment) \notin DOMAIN config

ReturnedOk == pc = "done" /\ result = Some("Ok")

(***************************************************************************)
(* C1 (as claimed): a run whose --environment value is no key of the       *)
(* document has sent no request at all, the repository lookup included,    *)
(* at the moment it fails on that precondition.                            *)
(***************************************************************************)
C1_SelectorFailsBeforeAnyRequest ==
    (SelectorMissing /\ pc = "panicked") => trace = <<>>

(***************************************************************************)
(* C2: an upsert_environment_variable whose get is answered sends exactly  *)
(* one get and, right after it, exactly one write: a create and no update  *)
(* when the variable is absent remotely, an update and no create when it   *)
(* is present.                                                             *)
(***************************************************************************)
C2_UpsertCorrectness ==
    \A i \in Positions :
        LET req == trace[i].req
            SamePair(j) ==
                EnvOf(trace[j].req) = EnvOf(req) /\ KeyOf(trace[j].req) = KeyOf(req)
            CreateNext ==
                /\ i < Len(trace)
                /\ IsCreateVariable(trace[i + 1].req) /\ SamePair(i + 1)
            UpdateNext ==
                /\ i < Len(trace)
                /\ IsUpdateVariable(trace[i + 1].req) /\ SamePair(i + 1)
        IN  /\ IsGetVariable(req) =>
                \* one get for the pair
                /\ \A j \in Positions :
                      (j # i /\ IsGetVariable(trace[j].req)) => ~SamePair(j)
                \* the write it leads to
                /\ trace[i].outcome = "none" => CreateNext
                /\ trace[i].outcome = "some" => UpdateNext
                /\ trace[i].outcome = "err" => i = Len(trace)
                /\ (GetAnswered(i) /\ CallReturned(i) /\ ~raced) =>
                      IF HasVariable(before, EnvOf(req), KeyOf(req))
                      THEN UpdateNext ELSE CreateNext
            /\ IsWrite(req) =>
                \* one write for the pair, right after the pair's get
                /\ i > 1 /\ IsGetVariable(trace[i - 1].req) /\ SamePair(i - 1)
                /\ \A j \in Positions :
                      (j # i /\ IsWrite(trace[j].req)) => ~SamePair(j)

\* In one run, with no other writer: a present variable was updated and an
\* absent one created, both writes answered.
C2_Witness ==
    /\ ~raced
    /\ \E p \in AllPairs, q \in AllPairs :
        /\ HasVariable(before, p[1], p[2])
        /\ \E i \in GetsOf(p[1], p[2]) :
              GetAnswered(i) /\ i + 1 \in UpdatesOf(p[1], p[2]) /\ Answered(i + 1)
        /\ ~HasVariable(before, q[1], q[2])
        /\ \E i \in GetsOf(q[1], q[2]) :
              GetAnswered(i) /\ i + 1 \in CreatesOf(q[1], q[2]) /\ Answered(i + 1)

(***************************************************************************)
(* C3 (as claimed): get_environment_variable returns "not found" on 404,   *)
(* an error on every other non-2xx status, a value on a 2xx status only.   *)
(***************************************************************************)
C3_GetNotFoundOnlyOn404 ==
    \A i \in Positions :
        (IsGetVariable(trace[i].req) /\ CallReturned(i) /\ Sent(i)) =>
            /\ StatusOf(i) = 404 => trace[i].outcome = "none"
            /\ (StatusOf(i) # 404 /\ StatusOf(i) \notin 200..299)
                  => trace[i].outcome = "err"
            /\ trace[i].outcome = "some" => StatusOf(i) \in 200..299

(***************************************************************************)
(* C4: a run with no selector that returns Ok has sent exactly one         *)
(* upsert_environment per environment of the document and, for every pair  *)
(* of the document, exactly one get and exactly one write carrying the     *)
(* pair's value; nothing for any other environment or pair.                *)
(***************************************************************************)
C4_FullDocumentSync ==
    (ReturnedOk /\ options.environment = None) =>
        /\ \A e \in DOMAIN FullDocument :
              Cardinality(UpsertsOf(e)) = IF e \in DOMAIN config THEN 1 ELSE 0
        /\ \A p \in AllPairs :
              LET W == CreatesOf(p[1], p[2]) \cup UpdatesOf(p[1], p[2])
              IN  IF p \in DocumentPairs
                  THEN /\ Cardinality(GetsOf(p[1], p[2])) = 1
                       /\ Cardinality(W) = 1
                       /\ \A j \in W : ValueOf(trace[j].req) = config[p[1]][p[2]]
                  ELSE GetsOf(p[1], p[2]) = {} /\ W = {}

\* Every call succeeded, over the full document, visiting staging before
\* prod and B before A.
C4_Witness ==
    /\ ReturnedOk /\ options.environment = None /\ AllSucceeded(trace)
    /\ config = FullDocument
    /\ \E i \in UpsertsOf("staging"), j \in UpsertsOf("prod") : i < j
    /\ \E i \in GetsOf("prod", "B"), j \in GetsOf("prod", "A") : i < j

(***************************************************************************)
(* C5: with a selector that names an environment of the document, every    *)
(* environment and variable request of the run addresses that environment. *)
(***************************************************************************)
C5_SingleEnvironmentSync ==
    (options.environment # None /\ ~SelectorMissing) =>
        \A i \in Positions :
            ~IsLookup(trace[i].req) =>
                EnvOf(trace[i].req) = Unwrap(options.environment)

\* The selected run returned Ok over a document with two environments, the
\* other one holding a variable.
C5_Witness ==
    /\ ReturnedOk
    /\ options.environment = Some("staging")
    /\ config = FullDocument
    /\ \E i \in Positions : IsWrite(trace[i].req) /\ Answered(i)

(***************************************************************************)
(* C6: a create or update that fails is the last request of the run, and   *)
(* sync_environments has returned an error.                                *)
(***************************************************************************)
C6_FailFast ==
    \A i \in Positions :
        (IsWrite(trace[i].req) /\ CallFailed(i)) =>
            /\ i = Len(trace)
            /\ wire = {}
            /\ pc = "done"
            /\ result = Some("Err")

\* A write failed while a pair of the document was still to be visited.
C6_Witness ==
    /\ options.environment = None
    /\ \E i \in Positions : IsWrite(trace[i].req) /\ CallFailed(i)
    /\ \E p \in DocumentPairs : GetsOf(p[1], p[2]) = {}
    /\ \E e \in DOMAIN config : UpsertsOf(e) = {}

(***************************************************************************)
(* C7: a variable request for environment e comes after an                 *)
(* upsert_environment(e) of the run that did not fail; after a failed      *)
(* upsert_environment(e) the run sends nothing.                            *)
(***************************************************************************)
C7_EnvironmentBeforeVariables ==
    /\ \A i \in Positions :
          IsVariableCall(trace[i].req) =>
              \E j \in 1..(i - 1) :
                  /\ IsUpsertEnvironment(trace[j].req)
                  /\ EnvOf(trace[j].req) = EnvOf(trace[i].req)
                  /\ Answered(j) /\ ~CallFailed(j)
    /\ \A j \in Positions :
          (IsUpsertEnvironment(trace[j].req) /\ CallFailed(j)) =>
              /\ j = Len(trace)
              /\ \A i \in Positions :
                    IsVariableCall(trace[i].req) =>
                        EnvOf(trace[i].req) # EnvOf(trace[j].req)

\* upsert_environment failed for an environment that has variables, after
\* another environment was synced with its variables.
C7_Witness ==
    /\ \E j \in Positions :
          /\ IsUpsertEnvironment(trace[j].req) /\ CallFailed(j)
          /\ config[EnvOf(trace[j].req)] # <<>>
    /\ \E i \in Positions : IsVariableCall(trace[i].req)

(***************************************************************************)
(* C8: with this tool the only writer, a run in which every call succeeds, *)
(* after a run of the same document and selector in which every call       *)
(* succeeded, leaves GitHub as that run left it.                           *)
(***************************************************************************)
C8_Idempotence ==
    (ReturnedOk /\ AllSucceeded(trace) /\ ~raced /\ settled # None) =>
        remote = Unwrap(settled)

\* The second run returned, having updated a variable and upserted an
\* environment that the first run had created.
C8_Witness ==
    /\ ReturnedOk /\ AllSucceeded(trace) /\ ~raced /\ settled # None
    /\ otherWrites = 0
    /\ config = FullDocument
    /\ \E i \in Positions : IsUpdateVariable(trace[i].req)
    /\ \E i \in Positions : IsUpsertEnvironment(trace[i].req)

(***************************************************************************)
(* C9 (as claimed): every request sent, the repository lookup included,    *)
(* carries the four headers: bearer authentication with the token,         *)
(* User-Agent, Accept pinning the JSON media type, the API version.        *)
(***************************************************************************)
C9_EveryRequestHasFourHeaders ==
    \A i \in Positions :
        LET h == trace[i].req.headers
        IN  /\ {"Authorization", "User-Agent", "Accept", "X-Github-Api-Version"}
                  \subseteq DOMAIN h
            /\ h["Authorization"] = <<"Bearer", options.token>>
            /\ h["Accept"] = "application/vnd.github.v3+json"
            /\ h["X-Github-Api-Version"] = "2022-11-28"

(***************************************************************************)
(* C10 (as claimed): every client operation returns an error on every      *)
(* non-2xx status (the 404 of get_environment_variable apart), 1xx and 3xx *)
(* included, and success on a 2xx status only.                             *)
(***************************************************************************)
C10_ErrorOnEveryNon2xx ==
    \A i \in Positions :
        (~IsLookup(trace[i].req) /\ CallReturned(i) /\ Sent(i)) =>
            /\ (StatusOf(i) \notin 200..299
                  /\ ~(IsGetVariable(trace[i].req) /\ StatusOf(i) = 404))
                  => trace[i].outcome = "err"
            /\ trace[i].outcome \in {"ok", "some"} => StatusOf(i) \in 200..299


(***************************************************************************)
(* C11 (as claimed): a run sends the repository lookup once, before every  *)
(* environment and variable request; when the lookup has returned on an    *)
(* answer with a non-success (non-2xx) status, init has failed and the run *)
(* sends nothing else.                                                     *)
(***************************************************************************)
C11_FailFastConstruction ==
    \A i \in Positions :
        /\ IsLookup(trace[i].req) <=> i = 1
        /\ (i = 1 /\ CallReturned(1) /\ Sent(1) /\ StatusOf(1) \notin 200..299) =>
              /\ Len(trace) = 1
              /\ pc = "done" /\ result = Some("Err")

(***************************************************************************)
(* C12 (as claimed): a repository argument without exactly one slash (none,*)
(* or two or more) aborts the run before any request is sent.              *)
(***************************************************************************)
RECURSIVE Count(_, _, _)
Count(s, c, i) ==
    IF i > Len(s) THEN 0
    ELSE (IF s[i] = c THEN 1 ELSE 0) + Count(s, c, i + 1)

C12_RepositoryNeedsExactlyOneSlash ==
    (runs > 0 /\ Count(options.repository, "/", 1) # 1) =>
        pc = "panicked" /\ trace = <<>>


(***************************************************************************)
(* C13 (as claimed): when GitHub has answered every request so far and    *)
(* answers the write of an upsert after another writer created, changed or *)
(* deleted the variable between the get and the write (the variable is not *)
(* on GitHub as the get found it), the write succeeds and the variable     *)
(* holds the configured value.                                             *)
(***************************************************************************)
\* The run is suspended at the write of an upsert whose get GitHub answered,
\* and the variable is no longer as that answer said: created, deleted or
\* changed in between.
RacedSinceGet ==
    /\ pc \in {"create_environment_variable", "update_environment_variable"}
    /\ GetAnswered(Len(trace) - 1)
    /\ LET e == Unwrap(curEnv)
           k == Unwrap(curKey)
           got == Unwrap(trace[Len(trace) - 1].resp)
       IN  IF got.status = 404 THEN HasVariable(remote, e, k)
           ELSE \/ ~HasVariable(remote, e, k)
                \/ remote[e][k] # got.body["value"]

\* As RacedSinceGet, the variable changed in value only.
ChangedSinceGet ==
    /\ RacedSinceGet
    /\ HasVariable(remote, Unwrap(curEnv), Unwrap(curKey))
    /\ StatusOf(Len(trace) - 1) # 404

\* This step is GitHub's own answer to the write, and the write succeeded
\* and left the configured value.
WriteWins ==
    LET e == Unwrap(curEnv)
        k == Unwrap(curKey)
    IN  /\ trace'[Len(trace)].outcome = "ok"
        /\ HasVariable(remote', e, k)
        /\ remote'[e][k] = config[e][k]

C13_BenignRace ==
    [][(RacedSinceGet /\ trace' # trace /\ faults = 0 /\ faults' = 0)
          => WriteWins]_vars

\* The half of C13 that holds: a change of the value is overwritten.
C13_ChangeIsOverwritten ==
    [][(ChangedSinceGet /\ trace' # trace /\ faults' = faults) => WriteWins]_vars

(***************************************************************************)
(* C14: no request of a run is a delete, and while no other writer has     *)
(* written since the run started, every environment the selector leaves    *)
(* out and every variable outside the selected part of the document is on  *)
(* GitHub exactly as it was when the run started.                          *)
(***************************************************************************)
SelectedEnvironments ==
    IF options.environment # None
    THEN {Unwrap(options.environment)} \cap DOMAIN config
    ELSE DOMAIN config

SelectedPairs == { p \in DocumentPairs : p[1] \in SelectedEnvironments }

SameVariable(e, k) ==
    /\ HasVariable(remote, e, k) <=> HasVariable(before, e, k)
    /\ HasVariable(remote, e, k) => remote[e][k] = before[e][k]

C14_NoDeletionNoPruning ==
    /\ \A i \in Positions : ~IsDelete(trace[i].req)
    /\ (runs > 0 /\ ~raced) =>
          \A e \in DOMAIN FullDocument :
              IF e \in SelectedEnvironments
              THEN /\ e \in DOMAIN before => e \in DOMAIN remote
                   /\ \A k \in AllKeys \ DOMAIN config[e] : SameVariable(e, k)
              ELSE /\ e \in DOMAIN remote <=> e \in DOMAIN before
                   /\ e \in DOMAIN remote => remote[e] = before[e]

\* A run over the staging environment alone returned Ok and wrote, with a
\* variable of prod on GitHub that the document gives another value.
C14_Witness ==
    /\ ReturnedOk /\ ~raced
    /\ options.environment = Some("staging")
    /\ remote # before
    /\ "prod" \in DOMAIN config
    /\ \E k \in DOMAIN config["prod"] :
          HasVariable(remote, "prod", k) /\ remote["prod"][k] # config["prod"][k]


(***************************************************************************)
(* C15 (as claimed): a get answered 200 with the value the document        *)
(* configures is followed by no create and no update of that variable.     *)
(***************************************************************************)
\* The get at position i found the variable with the configured value.
GetFoundConfigured(i) ==
    /\ IsGetVariable(trace[i].req)
    /\ CallReturned(i) /\ Sent(i) /\ StatusOf(i) = 200
    /\ DecodesVariableResponse(Unwrap(trace[i].resp).body)
    /\ <<EnvOf(trace[i].req), KeyOf(trace[i].req)>> \in DocumentPairs
    /\ Unwrap(trace[i].resp).body["value"]
          = config[EnvOf(trace[i].req)][KeyOf(trace[i].req)]

C15_NoWriteWhenEqual ==
    \A i \in Positions :
        GetFoundConfigured(i) =>
            \A j \in Positions :
                IsWrite(trace[j].req) =>
                    \/ EnvOf(trace[j].req) # EnvOf(trace[i].req)
                    \/ KeyOf(trace[j].req) # KeyOf(trace[i].req)

(***************************************************************************)
(* C15 (amended): every create or update of a run is for a pair of the     *)
(* selected part of the document, carries the configured value and is the  *)
(* only write of that pair; a get that found the variable is followed by   *)
(* the update of it even when the value found is the configured one.       *)
(***************************************************************************)
C15_OneWritePerSelectedPair ==
    \A i \in Positions :
        /\ IsWrite(trace[i].req) =>
              /\ EnvOf(trace[i].req) \in SelectedEnvironments
              /\ KeyOf(trace[i].req) \in DOMAIN config[EnvOf(trace[i].req)]
              /\ ValueOf(trace[i].req)
                    = config[EnvOf(trace[i].req)][KeyOf(trace[i].req)]
              /\ \A j \in 1..(i - 1) :
                    IsWrite(trace[j].req) =>
                        \/ EnvOf(trace[j].req) # EnvOf(trace[i].req)
                        \/ KeyOf(trace[j].req) # KeyOf(trace[i].req)
        /\ GetFoundConfigured(i) =>
              /\ i < Len(trace)
              /\ IsUpdateVariable(trace[i + 1].req)
              /\ EnvOf(trace[i + 1].req) = EnvOf(trace[i].req)
              /\ KeyOf(trace[i + 1].req) = KeyOf(trace[i].req)
              /\ ValueOf(trace[i + 1].req) = Unwrap(trace[i].resp).body["value"]

\* A variable that already held the configured value was updated with it.
C15_Witness ==
    \E i \in Positions :
        /\ GetFoundConfigured(i)
        /\ i < Len(trace)
        /\ Answered(i + 1) /\ Sent(i + 1) /\ StatusOf(i + 1) = 204


(***************************************************************************)
(* C16 (as claimed): when sync_environments has returned Ok and no other   *)
(* writer wrote since the run started, every selected environment is on    *)
(* GitHub and holds every variable the document gives it, with the         *)
(* configured value.                                                       *)
(***************************************************************************)
\* GitHub holds the selected part of the document.
MatchesDocument(rem) ==
    /\ SelectedEnvironments \subseteq DOMAIN rem
    /\ \A p \in SelectedPairs :
          HasVariable(rem, p[1], p[2]) /\ rem[p[1]][p[2]] = config[p[1]][p[2]]

C16_DesiredStateReached ==
    (ReturnedOk /\ ~raced) => MatchesDocument(remote)


(***************************************************************************)
(* C17: while no other writer has written since the run started, every     *)
(* environment and variable a request of the run has written is on GitHub  *)
(* as written, also after a later request failed and the run returned the  *)
(* error; and a run that returns Ok with every call answered 2xx (or the   *)
(* 404 of a get) leaves GitHub holding the selected part of the document,  *)
(* whatever a failed run before it had written.                            *)
(***************************************************************************)
\* GitHub applied the write at position i.
Applied(i) ==
    /\ Answered(i) /\ Sent(i)
    /\ \/ IsUpsertEnvironment(trace[i].req) /\ StatusOf(i) = 200
       \/ IsCreateVariable(trace[i].req) /\ StatusOf(i) = 201
       \/ IsUpdateVariable(trace[i].req) /\ StatusOf(i) = 204

C17_NoRollbackRerunConverges ==
    ~raced =>
        /\ \A i \in Positions :
              Applied(i) =>
                  /\ EnvOf(trace[i].req) \in DOMAIN remote
                  /\ IsWrite(trace[i].req) =>
                        /\ HasVariable(remote, EnvOf(trace[i].req),
                                       KeyOf(trace[i].req))
                        /\ remote[EnvOf(trace[i].req)][KeyOf(trace[i].req)]
                              = ValueOf(trace[i].req)
        /\ (ReturnedOk /\ AllSucceeded(trace)) => MatchesDocument(remote)

\* The second of two runs over the whole document returned Ok, all of its
\* calls succeeding, after the first had written one environment with its
\* variables and not the other. The first run did fail: nobody else wrote,
\* and a run that returns Ok has had an answer to the PUT of every
\* environment and to the write of each of its variables, of which one at
\* most was not GitHub's own; only answers of GitHub's own to them all leave
\* that environment written in full.
C17_Witness ==
    /\ runs = 2 /\ otherWrites = 0 /\ faults <= 1
    /\ config = FullDocument /\ options.environment = None
    /\ \E e \in DOMAIN config :
          /\ DOMAIN before = {e}
          /\ before[e] = config[e]
    /\ ReturnedOk /\ AllSucceeded(trace)
    /\ MatchesDocument(remote)

\* A run has failed with a write of its own applied before the failing call.
C17_FailedPartWay ==
    /\ pc = "done" /\ result = Some("Err") /\ ~raced
    /\ \E i \in Positions : IsWrite(trace[i].req) /\ Applied(i)


(***************************************************************************)
(* C18: at most one request is outstanding, and it is the last one sent;   *)
(* every request before the last has been answered; a request that failed  *)
(* is the last request of the run, and no other request of the run is the  *)
(* same request.                                                           *)
(***************************************************************************)
SameRequest(a, b) ==
    /\ a.method = b.method
    /\ Len(a.url) = Len(b.url)
    /\ a.url[1] = b.url[1]
    /\ a = b

C18_SequentialNoRetry ==
    /\ Cardinality(wire) <= 1
    /\ wire \subseteq {Len(trace)}
    /\ \A i \in Positions :
          /\ i < Len(trace) => Answered(i)
          /\ i \in wire <=> ~Answered(i)
          /\ CallFailed(i) =>
                /\ i = Len(trace)
                /\ wire = {}
                /\ \A j \in Positions \ {i} : ~SameRequest(trace[j].req, trace[i].req)

\* A run ended on a server error to the write of its second variable, every
\* request before it answered.
C18_Witness ==
    /\ pc = "done" /\ result = Some("Err")
    /\ Len(trace) >= 6
    /\ IsWrite(trace[Len(trace)].req)
    /\ Sent(Len(trace)) /\ StatusOf(Len(trace)) = 500
    /\ \A i \in Positions : Answered(i)

(***************************************************************************)
(* C19: a get that failed (no answer, an error status other than 404, or   *)
(* an answer whose body does not decode) is the last request of the run:   *)
(* no create and no update follows it, and the run has returned the error. *)
(***************************************************************************)
GetFailed(i) ==
    /\ IsGetVariable(trace[i].req)
    /\ CallReturned(i)
    /\ \/ ~Sent(i)
       \/ StatusOf(i) \in 400..599 /\ StatusOf(i) # 404
       \/ /\ StatusOf(i) \notin 400..599
          /\ ~DecodesVariableResponse(Unwrap(trace[i].resp).body)

C19_NoWriteAfterFailedProbe ==
    \A i \in Positions :
        GetFailed(i) =>
            /\ i = Len(trace)
            /\ \A j \in Positions : j > i => ~IsWrite(trace[j].req)
            /\ trace[i].outcome = "err"
            /\ pc = "done" /\ result = Some("Err")

\* A get was answered 500 and the run ended there.
C19_Witness ==
    /\ pc = "done"
    /\ trace # <<>>
    /\ GetFailed(Len(trace))
    /\ Sent(Len(trace)) /\ StatusOf(Len(trace)) = 500


(***************************************************************************)
(* C20: when every call returns, a run that has started ends (it returns   *)
(* or the process panics); it has returned Ok exactly when the lookup, the *)
(* upsert of every environment the selector names, and the get and the     *)
(* write of each of their variables were sent and succeeded; and it has    *)
(* sent at most 1 + the sum over the selected environments of              *)
(* (1 + 2 * its number of variables) requests.                             *)
(***************************************************************************)
\* The call at position i returned Ok: an answer that is no 4xx/5xx (the 404
\* of a get apart) with the body the call decodes.
CallSucceeded(i) ==
    /\ Answered(i) /\ ~CallFailed(i)
    /\ IsLookup(trace[i].req) => DecodesRepository(Unwrap(trace[i].resp).body)
    /\ (IsGetVariable(trace[i].req) /\ StatusOf(i) # 404)
          => DecodesVariableResponse(Unwrap(trace[i].resp).body)

\* The environments the selector names, in the document or not.
NamedEnvironments ==
    IF options.environment # None THEN {Unwrap(options.environment)}
    ELSE DOMAIN config

AllCallsSucceeded ==
    /\ \E i \in Positions : IsLookup(trace[i].req) /\ CallSucceeded(i)
    /\ \A e \in NamedEnvironments :
          /\ e \in DOMAIN config
          /\ \E i \in UpsertsOf(e) : CallSucceeded(i)
          /\ \A k \in DOMAIN config[e] :
                /\ \E i \in GetsOf(e, k) : CallSucceeded(i)
                /\ \E i \in CreatesOf(e, k) \cup UpdatesOf(e, k) : CallSucceeded(i)

RECURSIVE CallBound(_)
CallBound(envs) ==
    IF envs = {} THEN 1
    ELSE LET e == CHOOSE x \in envs : TRUE
         IN  1 + 2 * Cardinality(DOMAIN config[e]) + CallBound(envs \ {e})

Ended == pc \in {"done", "panicked"}

C20_Ends ==
    /\ Len(trace) <= CallBound(SelectedEnvironments)
    /\ Ended => (ReturnedOk <=> AllCallsSucceeded)

C20_Termination == []C20_Ends /\ (Running ~> Ended)

\* A run over the whole document returned Ok with as many requests as the
\* bound allows.
C20_Witness ==
    /\ ReturnedOk
    /\ config = FullDocument /\ options.environment = None
    /\ Len(trace) = CallBound(SelectedEnvironments)
    /\ AllCallsSucceeded

====
